---- MODULE Spec2Model ----
(***************************************************************************)
(* Tool-augmented prompt orchestration and dual-backend completion layer   *)
(* of Orby Coder: safety policy, prompt intent detector, context           *)
(* assembler and backend dispatcher.                                       *)
(*                                                                         *)
(* Text is modelled as a sequence of one-character strings, so that        *)
(* lower-casing, substring tests, split and strip are computed the way     *)
(* Python computes them.  Long fixed texts that are never searched (the    *)
(* system prompt, the tool-usage instructions, the field labels of a tool  *)
(* result) are single symbols of such a sequence.                          *)
(***************************************************************************)
EXTENDS Integers, Sequences, FiniteSets, TLC

(***************************************************************************)
(* Python str operations                                                   *)
(***************************************************************************)
SetMin(S) == CHOOSE x \in S : \A y \in S : x <= y

SetMax(S) == CHOOSE x \in S : \A y \in S : x >= y

\* str.lower() on one character
LowerChar(c) ==
  CASE c = "A" -> "a" []
       c = "B" -> "b" []
       c = "C" -> "c" []
       c = "D" -> "d" []
       c = "E" -> "e" []
       c = "F" -> "f" []
       c = "G" -> "g" []
       c = "H" -> "h" []
       c = "I" -> "i" []
       c = "J" -> "j" []
       c = "K" -> "k" []
       c = "L" -> "l" []
       c = "M" -> "m" []
       c = "N" -> "n" []
       c = "O" -> "o" []
       c = "P" -> "p" []
       c = "Q" -> "q" []
       c = "R" -> "r" []
       c = "S" -> "s" []
       c = "T" -> "t" []
       c = "U" -> "u" []
       c = "V" -> "v" []
       c = "W" -> "w" []
       c = "X" -> "x" []
       c = "Y" -> "y" []
       c = "Z" -> "z" []
       OTHER -> c

\* str.lower()
lower(s) == [i \in 1..Len(s) |-> LowerChar(s[i])]

\* the characters str.strip() removes
IsSpace(c) == c \in {" ", "\t", "\n", "\r"}

\* str.strip()
strip(s) ==
  LET keep == {i \in 1..Len(s) : ~IsSpace(s[i])}
  IN  IF keep = {} THEN <<>> ELSE SubSeq(s, SetMin(keep), SetMax(keep))

\* the positions at which p occurs in s
Occurrences(p, s) ==
  {i \in 1..(Len(s) - Len(p) + 1) : SubSeq(s, i, i + Len(p) - 1) = p}

\* Python `p in s`
In(p, s) == Occurrences(p, s) # {}

\* str.startswith
startswith(s, p) == Len(p) <= Len(s) /\ SubSeq(s, 1, Len(p)) = p

\* s.split(p, 1): one part when p does not occur in s, else two
split1(s, p) ==
  IF In(p, s)
    THEN LET i == SetMin(Occurrences(p, s))
         IN  << SubSeq(s, 1, i - 1), SubSeq(s, i + Len(p), Len(s)) >>
    ELSE << s >>

\* s[n:]
slice_from(s, n) == SubSeq(s, n + 1, Len(s))

\* any(t in s for t in list)
AnyIn(list, s) == \E k \in 1..Len(list) : In(list[k], s)

(***************************************************************************)
(* Safety policy                                                           *)
(***************************************************************************)
None == "None"

\* ShellTool.validate_params: dangerous_commands
dangerous_commands ==
  << <<"r","m"," ","-","r","f"," ","/">>,
     <<"r","m"," ","-","r"," ","/">>,
     <<"f","o","r","m","a","t">>,
     <<"m","k","f","s">>,
     <<"d","d"," ","i","f","=">>,
     <<":","(",")","{",":","&","}",";",":">> >>

\* ShellTool.should_confirm_execute: confirmation_commands
confirmation_commands ==
  << <<"r","m">>,
     <<"d","e","l","e","t","e">>,
     <<"f","o","r","m","a","t">>,
     <<"m","k","f","s">>,
     <<"c","h","m","o","d">>,
     <<"c","h","o","w","n">> >>

\* TerminalExecutor.safe_command: dangerous_patterns, as Python reads the
\* literals: "\?" is not an escape, so the backslash stays in the pattern,
\* and the upper-case R of "chmod -R" / "chown -R" stays upper-case
dangerous_patterns ==
  << <<"r","m"," ","-","r","f"," ","/","\\","?","?">>,
     <<"r","m"," ","-","r"," ","/","\\","?","?">>,
     <<"r","m"," ","-"," ","/","\\","?","?">>,
     <<"d","d"," ","i","f","=","/","d","e","v","/">>,
     <<"d","d"," ","o","f","=","/","d","e","v","/">>,
     <<"m","k","f","s">>,
     <<">",":"," ","/","d","e","v","/">>,
     <<"m","v"," ","~">>,
     <<"c","h","m","o","d"," ","-","R"," ","7","7","7"," ","/","\\","?","?">>,
     <<"c","h","o","w","n"," ","-","R"," ","r","o","o","t"," ","/","\\","?","?">>,
     <<":","(",")","{",":","&","}",";",":">> >>

\* a validation that matches the deny-list against the command as written
ShellTool_validate_params_case_sensitive(command) ==
  IF strip(command) = <<>>
    THEN "Command must be a non-empty string"
    ELSE IF AnyIn(dangerous_commands, command)
           THEN "Dangerous command blocked"
           ELSE None

\* ShellTool.validate_params({"command": command}) for a text command:
\* an error message, or None
ShellTool_validate_params(command) ==
  IF strip(command) = <<>>
    THEN "Command must be a non-empty string"
    ELSE IF AnyIn(dangerous_commands, lower(command))
           THEN "Dangerous command blocked"
           ELSE None

\* ShellTool.validate_params(params) for any params dict: the command may
\* be missing, or be something else than text
ShellTool_validate_params_dict(params) ==
  IF ~params.has_command
    THEN "Missing required parameter: command"
    ELSE IF ~params.is_str
      THEN "Command must be a non-empty string"
      ELSE ShellTool_validate_params(params.command)

\* Python's False, as a return value
PyFalse == [type |-> "False"]

\* ShellTool.should_confirm_execute: the confirmation descriptor, or False
ShellTool_should_confirm_execute(command) ==
  IF AnyIn(confirmation_commands, lower(command))
    THEN [type |-> "exec",
          title |-> << "Confirm Shell Command" >>,
          command |-> command,
          message |-> << "This command may be destructive. Are you sure you want to execute: " >>
                        \o command \o << "?" >>]
    ELSE PyFalse

\* TerminalExecutor.safe_command
safe_command(command) ==
  ~AnyIn(dangerous_patterns, strip(lower(command)))

(***************************************************************************)
(* Inputs                                                                  *)
(***************************************************************************)
P_exec_echo == <<"e","x","e","c","u","t","e",":"," ","e","c","h","o"," ","h","i">>

P_EXEC_echo == <<"E","X","E","C","U","T","E",":"," ","e","c","h","o"," ","h","i">>

P_run_ls == <<"r","u","n",":"," ","l","s">>

P_Run_ls == <<"R","u","n",":"," ","l","s">>

P_exec_rmrf == <<"e","x","e","c","u","t","e",":"," ","r","m"," ","-","r","f"," ","/">>

P_exec_mkfs == <<"e","x","e","c","u","t","e",":"," ","m","k","f","s">>

P_run_rm == <<"r","u","n",":"," ","r","m"," ","x">>

P_exec_blank == <<"e","x","e","c","u","t","e",":"," "," ">>

P_please_run == <<"p","l","e","a","s","e"," ","r","u","n"," ","l","s">>

P_hello == <<"h","e","l","l","o">>

P_search == <<"s","e","a","r","c","h",":"," ","r","u","s","t">>

P_SEARCH == <<"S","E","A","R","C","H",":"," ","x">>

P_what_is == <<"w","h","a","t"," ","i","s"," ","x">>

P_run_and_ask == <<"r","u","n",":"," ","l","s"," ","w","h","a","t"," ","i","s"," ","x">>

E_model_not_found == <<"m","o","d","e","l"," ","'","m","'"," ","n","o","t"," ","f","o","u","n","d">>

E_page_not_found == <<"4","0","4"," ","p","a","g","e"," ","n","o","t"," ","f","o","u","n","d">>

E_refused == <<"c","o","n","n","e","c","t","i","o","n"," ","r","e","f","u","s","e","d">>

E_malformed == <<"'","m","e","s","s","a","g","e","'">>

S_not_found == <<"n","o","t"," ","f","o","u","n","d">>

S_ollama_pull == <<"o","l","l","a","m","a"," ","p","u","l","l"," ">>

S_m == <<"m">>

S_rm_rf_root == <<"r","m"," ","-","r","f"," ","/">>

S_echo_hi == <<"e","c","h","o"," ","h","i">>

S_execute == <<"e","x","e","c","u","t","e",":">>

S_run == <<"r","u","n",":">>

S_chmod_root == <<"c","h","m","o","d"," ","-","R"," ","7","7","7"," ","/">>

S_chown_root == <<"c","h","o","w","n"," ","-","R"," ","r","o","o","t"," ","/">>

S_MKFS == <<"M","K","F","S"," ","x">>

S_dd == <<"d","d"," ","i","f","=","/","d","e","v","/","z","e","r","o">>

S_redirect == <<"e","c","h","o"," ","x"," ",">"," ","/","d","e","v","/","s","d","a">>

S_fork_bomb == <<":","(",")","{",":","&","}",";",":">>

S_RM_x == <<"R","M"," ","x">>

S_ls == <<"l","s">>

S_blank == <<" "," ">>

S_temperature == <<"t","e","m","p","e","r","a","t","u","r","e"," ">>

S_search == <<"s","e","a","r","c","h",":">>

S_find == <<"f","i","n","d",":">>

S_model == <<"m","o","d","e","l"," ">>

P_find == <<"f","i","n","d",":"," ","r","u","s","t">>

P_Find == <<"F","i","n","d",":"," ","a"," ","b">>

I_exit == <<"e","x","i","t">>

I_QUIT == <<"Q","U","I","T">>

I_q == <<"q">>


I_temp_1 == <<"t","e","m","p","e","r","a","t","u","r","e"," ","1">>

I_TEMP_00 == <<"T","e","m","p","e","r","a","t","u","r","e"," ","0",".","0">>

I_temp_15 == <<"t","e","m","p","e","r","a","t","u","r","e"," ","1",".","5">>

I_temp_neg == <<"t","e","m","p","e","r","a","t","u","r","e"," ","-","0",".","1">>

I_temp_abc == <<"t","e","m","p","e","r","a","t","u","r","e"," ","a","b","c">>

I_temp_none == <<"t","e","m","p","e","r","a","t","u","r","e"," ">>

exit_inputs ==
  { <<"e","x","i","t">>,
    <<"q","u","i","t">>,
    <<"q">> }

loop_commands ==
  { <<"h","e","l","p">>,
    <<"m","o","d","e","l","s">>,
    <<"c","o","n","f","i","g">>,
    <<"s","y","s","t","e","m">>,
    <<"c","l","e","a","r">>,
    <<"c","l","s">> }


(***************************************************************************)
(* Tool implementations                                                    *)
(***************************************************************************)
\* what subprocess.run can do with a command: exit code 0, a non-zero exit
\* code, subprocess.TimeoutExpired, or another exception
ShellOutcomes == {"exit0", "exit1", "timeout", "error"}

\* ShellTool.execute: the dict it returns (it never raises)
ShellTool_execute(command, shell_outcome) ==
  CASE shell_outcome = "exit0" ->
         [llmContent |-> <<"Command: ">> \o command \o <<"Exit Code: 0">>,
          returnDisplay |-> <<"stdout">>]
    [] shell_outcome = "exit1" ->
         [llmContent |-> <<"Command: ">> \o command \o <<"Exit Code: 1">>,
          returnDisplay |-> <<"[STDERR]">>]
    [] shell_outcome = "timeout" ->
         [llmContent |-> <<"Command timed out: ">> \o command,
          returnDisplay |-> <<"Command timed out after 30 seconds">>]
    [] OTHER ->
         [llmContent |-> <<"Error executing command: ">>,
          returnDisplay |-> <<"Error: ">>]

\* WebSearchTool.execute: the simulated result
WebSearchTool_execute(query) ==
  [llmContent |-> <<"Web search results for ">> \o query,
   returnDisplay |-> <<"Search results for ">> \o query \o <<" returned.">>,
   sources |-> << [title |-> <<"Search results for: ">> \o query,
                   url |-> <<"https://example.com/search?q=">> \o query,
                   snippet |-> <<"This is a simulated search result">>],
                  [title |-> <<"Related information about ">> \o query,
                   url |-> <<"https://example.com/related/">> \o query,
                   snippet |-> <<"Additional context">>] >>]

\* urllib.parse.quote: a space becomes %20
quote(query) ==
  [i \in 1..Len(query) |-> IF query[i] = " " THEN "%20" ELSE query[i]]

\* WebSearcher.search: the simulated list of results
WebSearcher_search(query) ==
  << [title |-> <<"Search results for: ">> \o query,
      url |-> <<"https://example.com/search?q=">> \o quote(query),
      snippet |-> <<"This is a simulated search result">>,
      timestamp |-> <<"datetime.now().isoformat()">>],
     [title |-> <<"Related information about ">> \o query,
      url |-> <<"https://example.com/related/">> \o quote(query),
      snippet |-> <<"Additional context">>,
      timestamp |-> <<"datetime.now().isoformat()">>] >>

(***************************************************************************)
(* Prompt intent detector: LocalLLMProvider._enhanced_process              *)
(***************************************************************************)
terminal_triggers ==
  << <<"e","x","e","c","u","t","e",":">>,
     <<"r","u","n",":">>,
     <<"t","e","r","m","i","n","a","l",":">>,
     <<"c","o","m","m","a","n","d",":">>,
     <<"c","a","n"," ","y","o","u"," ","r","u","n">>,
     <<"p","l","e","a","s","e"," ","r","u","n">>,
     <<"t","r","y"," ","r","u","n","n","i","n","g">>,
     <<"r","u","n"," ","t","h","i","s"," ","c","o","m","m","a","n","d">>,
     <<"e","x","e","c","u","t","e"," ","t","h","i","s">>,
     <<"t","e","r","m","i","n","a","l"," ","c","o","m","m","a","n","d">> >>

command_indicators ==
  << <<"e","x","e","c","u","t","e",":">>,
     <<"r","u","n",":">>,
     <<"t","e","r","m","i","n","a","l",":">>,
     <<"c","o","m","m","a","n","d",":">> >>

search_triggers ==
  << <<"s","e","a","r","c","h",":">>,
     <<"f","i","n","d",":">>,
     <<"l","o","o","k","u","p",":">>,
     <<"g","o","o","g","l","e",":">>,
     <<"w","e","b",":">>,
     <<"c","a","n"," ","y","o","u"," ","s","e","a","r","c","h">>,
     <<"p","l","e","a","s","e"," ","s","e","a","r","c","h">>,
     <<"l","o","o","k"," ","u","p">>,
     <<"w","h","a","t"," ","i","s">>,
     <<"w","h","o"," ","i","s">>,
     <<"w","h","e","n"," ","w","a","s">>,
     <<"h","o","w"," ","d","o","e","s">>,
     <<"w","h","y"," ","i","s">>,
     <<"c","u","r","r","e","n","t"," ","s","t","a","t","u","s">>,
     <<"l","a","t","e","s","t"," ","n","e","w","s">>,
     <<"r","e","c","e","n","t"," ","u","p","d","a","t","e","s">> >>

search_indicators ==
  << <<"s","e","a","r","c","h",":">>,
     <<"f","i","n","d",":">>,
     <<"l","o","o","k","u","p",":">>,
     <<"g","o","o","g","l","e",":">>,
     <<"w","e","b",":">> >>

NoText == << "<none>" >>

\* the context dict: a function from the category keys present
EmptyContext == [k \in {} |-> 0]

\* a record of one safety check: which checker saw which command, and
\* whether it let the command pass
Check(by, command, passed) == [by |-> by, command |-> command, passed |-> passed]

\* result of a detector part that did nothing
Quiet ==
  [raised |-> None, extracted |-> FALSE, arg |-> NoText, ran |-> FALSE,
   checks |-> {}, spawned |-> <<>>, entry |-> <<>>]

\* shell_step as it would be if the result of validate_params were ignored
shell_step_unchecked(command, shell_outcome) ==
  LET validation_result == ShellTool_validate_params(command)
  IN  [Quiet EXCEPT !.extracted = TRUE, !.arg = command, !.ran = TRUE,
         !.checks = {Check("validate_params", command, validation_result = None)},
         !.spawned = << command >>,
         !.entry = << ShellTool_execute(command, shell_outcome) >>]

\* shell_step as it would be if a command that needs confirmation were held
\* back until it is confirmed
shell_step_awaiting_confirmation(command, shell_outcome) ==
  LET validation_result == ShellTool_validate_params(command)
      confirmation_needed == ShellTool_should_confirm_execute(command)
  IN  IF validation_result = None /\ confirmation_needed = PyFalse
        THEN [Quiet EXCEPT !.extracted = TRUE, !.arg = command, !.ran = TRUE,
                !.checks = {Check("validate_params", command, validation_result = None)},
                !.spawned = << command >>,
                !.entry = << ShellTool_execute(command, shell_outcome) >>]
        ELSE [Quiet EXCEPT !.extracted = TRUE, !.arg = command,
                !.checks = {Check("validate_params", command, validation_result = None)}]

\* the body of `if command:` in _enhanced_process: validate, classify,
\* execute, store
shell_step(command, shell_outcome) ==
  LET validation_result == ShellTool_validate_params(command)
      confirmation_needed == ShellTool_should_confirm_execute(command)
  IN  IF validation_result = None
        THEN [Quiet EXCEPT !.extracted = TRUE, !.arg = command, !.ran = TRUE,
                !.checks = {Check("validate_params", command, validation_result = None)},
                !.spawned = << command >>,
                !.entry = << ShellTool_execute(command, shell_outcome) >>]
        ELSE [Quiet EXCEPT !.extracted = TRUE, !.arg = command,
                !.checks = {Check("validate_params", command, validation_result = None)}]

\* a terminal part that takes the command after any trigger phrase, the
\* natural-language ones included
terminal_part_any_trigger(user_prompt, enabled, shell_outcome) ==
  LET user_prompt_lower == lower(user_prompt)
      hits == {k \in 1..Len(terminal_triggers) :
                 In(terminal_triggers[k], user_prompt_lower)}
  IN  IF ~enabled \/ hits = {}
        THEN Quiet
        ELSE LET parts == split1(user_prompt, terminal_triggers[SetMin(hits)])
             IN  IF Len(parts) < 2
                   THEN [Quiet EXCEPT !.raised = "IndexError"]
                   ELSE LET command == strip(parts[2])
                        IN  IF command = <<>>
                              THEN [Quiet EXCEPT !.extracted = TRUE, !.arg = command]
                              ELSE shell_step(command, shell_outcome)

\* the terminal-execution part of _enhanced_process
terminal_part(user_prompt, enabled, shell_outcome) ==
  LET user_prompt_lower == lower(user_prompt)
      hits == {k \in 1..Len(command_indicators) :
                 In(command_indicators[k], user_prompt_lower)}
  IN  IF ~enabled \/ ~AnyIn(terminal_triggers, user_prompt_lower) \/ hits = {}
        THEN Quiet
        ELSE LET indicator == command_indicators[SetMin(hits)]
                 parts == split1(user_prompt, indicator)
             IN  IF Len(parts) < 2
                   THEN [Quiet EXCEPT !.raised = "IndexError"]
                   ELSE LET command == strip(parts[2])
                        IN  IF command = <<>>
                              THEN [Quiet EXCEPT !.extracted = TRUE, !.arg = command]
                              ELSE shell_step(command, shell_outcome)

\* the web-search part of _enhanced_process (the question_indicators loop
\* only re-assigns the whole prompt to search_query, which it already holds)
web_part(user_prompt, enabled) ==
  LET user_prompt_lower == lower(user_prompt)
      hits == {k \in 1..Len(search_indicators) :
                 In(search_indicators[k], user_prompt_lower)}
  IN  IF ~enabled \/ ~AnyIn(search_triggers, user_prompt_lower)
        THEN Quiet
        ELSE LET parts == IF hits = {} THEN << <<>>, user_prompt >>
                          ELSE split1(user_prompt, search_indicators[SetMin(hits)])
             IN  IF Len(parts) < 2
                   THEN [Quiet EXCEPT !.raised = "IndexError"]
                   ELSE LET search_query == IF hits = {} THEN user_prompt
                                            ELSE strip(parts[2])
                        IN  IF search_query = <<>>
                              THEN [Quiet EXCEPT !.extracted = TRUE, !.arg = search_query]
                              ELSE [Quiet EXCEPT !.extracted = TRUE,
                                      !.arg = search_query, !.ran = TRUE,
                                      !.entry = << WebSearchTool_execute(search_query) >>]

\* the keys _enhanced_process stored in the context
context_keys(t, w) ==
  (IF t.entry # <<>> THEN {"terminal_execution"} ELSE {})
    \cup (IF w.entry # <<>> THEN {"web_search"} ELSE {})

\* what _enhanced_process returns or raises, given what its two parts did
\* (w is the web-search part, which runs only if the first did not raise)
detector_result(t, w) ==
  [raised |-> IF t.raised # None THEN t.raised ELSE w.raised,
   context |-> IF t.raised # None \/ w.raised # None THEN EmptyContext
               ELSE [k \in context_keys(t, w) |->
                       IF k = "terminal_execution" THEN t.entry[1] ELSE w.entry[1]],
   terminal |-> t,
   web |-> IF t.raised # None THEN Quiet ELSE w]

\* _enhanced_process: the context it returns, or the exception it raises,
\* with the safety checks made and the shell commands spawned on the way
enhanced_process(user_prompt, cfg, shell_outcome) ==
  detector_result(
    terminal_part(user_prompt, cfg.enable_terminal_execution, shell_outcome),
    web_part(user_prompt, cfg.enable_online_search))

(***************************************************************************)
(* Configuration (ModelConfig) and messages                                *)
(***************************************************************************)
\* ModelConfig.system_prompt, one symbol
SYSTEM_PROMPT == << "<system_prompt>" >>

\* ModelConfig.backend: the two supported values and an unrecognized one
Backends == {"ollama", "lmstudio", "openai"}

\* the ModelConfig values a provider is constructed with
Configs ==
  [backend : Backends, default_model : {S_m},
   enable_online_search : BOOLEAN, enable_terminal_execution : BOOLEAN]

\* a message dict
Msg(role, content) == [role |-> role, content |-> content]

EmptyMsg == Msg("", <<>>)

\* An element of the prepared list is either the caller's own dict (Python
\* appends the object itself: ref is its index in the caller's list) or a
\* dict the provider created (ref = 0)
Ref(i) == [ref |-> i, own |-> EmptyMsg]

New(m) == [ref |-> 0, own |-> m]

Deref(e, heap) == IF e.ref = 0 THEN e.own ELSE heap[e.ref]

\* list.insert(k, e) for k >= 0
list_insert(s, k, e) ==
  LET p == IF k < Len(s) THEN k ELSE Len(s)
  IN  SubSeq(s, 1, p) \o << e >> \o SubSeq(s, p + 1, Len(s))

\* json.dumps(context): the entries in insertion order
json_dumps(context) ==
  (IF "terminal_execution" \in DOMAIN context
     THEN << "terminal_execution: " >> \o context["terminal_execution"].llmContent
     ELSE <<>>)
  \o
  (IF "web_search" \in DOMAIN context
     THEN << "web_search: " >> \o context["web_search"].llmContent
     ELSE <<>>)

ContextHeader == "Additional context:"

\* LocalLLMProvider._prepare_messages, for a list of well-formed dicts
prepare_messages(messages, context) ==
  LET prepared == [i \in 1..Len(messages) |-> Ref(i)]
  IN  IF DOMAIN context # {}
        THEN list_insert(prepared, 1,
               New(Msg("user", << ContextHeader >> \o json_dumps(context))))
        ELSE prepared

InstructionsHeader == "[TOOL USAGE INSTRUCTIONS]"

\* the tool_instructions text built in chat_complete / stream_chat
tool_instructions(context) ==
  << InstructionsHeader >>
  \o (IF "terminal_execution" \in DOMAIN context
        THEN << "TERMINAL EXECUTION" >> ELSE <<>>)
  \o (IF "web_search" \in DOMAIN context THEN << "WEB SEARCH" >> ELSE <<>>)

\* an assembler that always inserts a new system message for the instructions
add_tool_instructions_new_message(prepared, heap, context) ==
  IF DOMAIN context = {}
    THEN [prepared |-> prepared, heap |-> heap]
    ELSE [prepared |-> list_insert(prepared, 0,
             New(Msg("system", SYSTEM_PROMPT \o tool_instructions(context)))),
          heap |-> heap]

\* `if context:` block of chat_complete / stream_chat: the instructions are
\* added to the first system message of the prepared list, through the
\* reference the list holds, or a new system message is inserted at 0.
\* Returns the prepared list and the caller's dicts after the update.
add_tool_instructions(prepared, heap, context) ==
  LET sys == {i \in 1..Len(prepared) : Deref(prepared[i], heap).role = "system"}
  IN  IF DOMAIN context = {}
        THEN [prepared |-> prepared, heap |-> heap]
        ELSE IF sys = {}
          THEN [prepared |-> list_insert(prepared, 0,
                   New(Msg("system", SYSTEM_PROMPT \o tool_instructions(context)))),
                heap |-> heap]
          ELSE LET i == SetMin(sys)
                   e == prepared[i]
               IN  IF e.ref = 0
                     THEN [prepared |-> [prepared EXCEPT ![i].own.content =
                                           @ \o tool_instructions(context)],
                           heap |-> heap]
                     ELSE [prepared |-> prepared,
                           heap |-> [heap EXCEPT ![e.ref].content =
                                       @ \o tool_instructions(context)]]

\* the message sequence the backend receives
Sent(prepared, heap) == [i \in 1..Len(prepared) |-> Deref(prepared[i], heap)]

\* `model or self.config.default_model`
model_name(model, cfg) == IF model # <<>> THEN model ELSE cfg.default_model

\* the detector's result when it is not run
NotDetected ==
  [raised |-> None, context |-> EmptyContext, terminal |-> Quiet, web |-> Quiet]

\* a detector that runs whether or not the caller enabled context
detects_ignoring_flag(messages, enable_context) ==
  messages # <<>> /\ messages[1].role = "user"

\* the condition under which chat_complete / stream_chat run the detector
detects(messages, enable_context) ==
  enable_context /\ messages # <<>> /\ messages[1].role = "user"

\* the assembled request: a is the prepared list and the caller's dicts
\* after the tool instructions were added
assembled(messages, detect, d, a) ==
  [detected |-> detect,
   input |-> IF detect THEN messages[1].content ELSE NoText,
   d |-> d,
   raised |-> d.raised,
   messages |-> IF d.raised = None THEN a.heap ELSE messages,
   sent |-> IF d.raised = None THEN Sent(a.prepared, a.heap) ELSE <<>>]

\* _prepare_messages followed by the tool-instruction block, for the
\* detector result d
assemble_with(messages, detect, d) ==
  assembled(messages, detect, d,
            add_tool_instructions(prepare_messages(messages, d.context),
                                  messages, d.context))

\* chat_complete / stream_chat up to the backend branch: detector on
\* messages[0], _prepare_messages, tool instructions
assemble(messages, enable_context, cfg, shell_outcome) ==
  assemble_with(messages, detects(messages, enable_context),
                IF detects(messages, enable_context)
                  THEN enhanced_process(messages[1].content, cfg, shell_outcome)
                  ELSE NotDetected)

(***************************************************************************)
(* Backend dispatcher                                                      *)
(***************************************************************************)
\* what the caller gets: a returned value or a raised exception
Outcome(kind, text) == [kind |-> kind, text |-> text]

NoOutcome == Outcome("none", <<>>)

\* selected_backend as it would be if the final else fell back to ollama
selected_backend_fallback(cfg) ==
  IF cfg.backend = "lmstudio" THEN "lmstudio" ELSE "ollama"

\* the backend branch of chat_complete / stream_chat: the backend the
\* request goes to, or "" when the configured value is not supported
selected_backend(cfg) ==
  IF cfg.backend = "ollama" THEN "ollama"
  ELSE IF cfg.backend = "lmstudio" THEN "lmstudio"
  ELSE ""

\* the except clauses of chat_complete / stream_chat
backend_error(backend, error_msg, model, streaming) ==
  IF backend = "ollama"
    THEN IF In(S_not_found, lower(error_msg))
           THEN Outcome("RuntimeError",
                  << "Model '" >> \o model \o << "' " >> \o S_not_found
                  \o << ". Please pull the model first with: " >>
                  \o S_ollama_pull \o model)
           ELSE Outcome("RuntimeError",
                  << IF streaming THEN "Error streaming with Ollama: "
                                  ELSE "Error with Ollama: " >> \o error_msg)
    ELSE Outcome("RuntimeError",
           << IF streaming THEN "Error streaming with LM Studio: "
                           ELSE "Error with LM Studio: " >> \o error_msg)

\* the failures a backend call can raise, with their cause and str(e)
BackendErrors ==
  { [cause |-> "unknown_model", text |-> E_model_not_found],
    [cause |-> "endpoint_missing", text |-> E_page_not_found],
    [cause |-> "unreachable", text |-> E_refused],
    [cause |-> "malformed_response", text |-> E_malformed] }

(***************************************************************************)
(* Direct command handlers                                                 *)
(***************************************************************************)
\* TerminalExecutor.execute_command: the dict it returns (it never raises)
TerminalExecutor_execute_command(command, shell_outcome) ==
  [command |-> command,
   success |-> (shell_outcome = "exit0"),
   return_code |-> IF shell_outcome = "exit0" THEN 0
                   ELSE IF shell_outcome = "exit1" THEN 1 ELSE -1,
   stderr |-> IF shell_outcome = "timeout"
                THEN << "Command timed out after 30 seconds" >>
                ELSE IF shell_outcome = "error" THEN << "str(e)" >> ELSE <<>>]

\* result of a handler that spawned nothing
NoRun == [checks |-> {}, spawned |-> <<>>, text |-> <<>>]

\* ToolManager.execute_tool
ToolManager_execute_tool(tool_name, command, shell_outcome) ==
  IF tool_name = "terminal_execution"
    THEN IF command # <<>> /\ safe_command(command)
           THEN [checks |-> {Check("safe_command", command, TRUE)},
                 spawned |-> << command >>,
                 text |-> << "success" >>]
           ELSE [checks |-> IF command # <<>>
                              THEN {Check("safe_command", command, FALSE)}
                              ELSE {},
                 spawned |-> <<>>,
                 text |-> << "Unsafe command blocked" >>]
    ELSE IF tool_name = "web_search"
      THEN [NoRun EXCEPT !.text = IF command # <<>> THEN << "success" >>
                                  ELSE << "No search query provided" >>]
      ELSE [NoRun EXCEPT !.text = << "Unknown tool" >>]

\* the 'execute:' / 'run:' branch of the interactive loop (chat_command)
\* and of OrbyTUI.on_text_area_submitted
execute_handler(user_input, cfg, shell_outcome) ==
  IF cfg.enable_terminal_execution
    THEN LET command == strip(slice_from(user_input, 8))
         IN  IF safe_command(command)
               THEN [checks |-> {Check("safe_command", command, TRUE)},
                     spawned |-> << command >>,
                     text |-> IF TerminalExecutor_execute_command(
                                   command, shell_outcome).success
                                THEN << "Command succeeded" >>
                                ELSE << "Command failed" >>]
               ELSE [checks |-> {Check("safe_command", command, FALSE)},
                     spawned |-> <<>>,
                     text |-> << "Unsafe command blocked" >>]
    ELSE [NoRun EXCEPT !.text = << "Terminal execution is disabled" >>]

\* the guard of that branch
is_execute_input(user_input) ==
  startswith(lower(user_input), S_execute) \/ startswith(lower(user_input), S_run)

\* the 'search:' / 'find:' branch of the interactive loop and of
\* OrbyTUI.on_text_area_submitted: the query searched for, if any
search_handler(user_input, cfg) ==
  IF cfg.enable_online_search
    THEN LET query == strip(slice_from(user_input, 7))
         IN  [searched |-> << query >>,
              results |-> WebSearcher_search(query)]
    ELSE [searched |-> <<>>, results |-> <<>>]

\* the guard of that branch
is_search_input(user_input) ==
  startswith(lower(user_input), S_search) \/ startswith(lower(user_input), S_find)

\* the guard of the 'temperature <value>' branch
is_temperature_input(user_input) == startswith(lower(user_input), S_temperature)

\* the input ends the session
is_exit_input(user_input) == lower(user_input) \in exit_inputs

\* the input reaches the end of the loop body, where the request to the
\* model is made
is_ai_input(user_input) ==
  /\ ~is_exit_input(user_input)
  /\ lower(user_input) \notin loop_commands
  /\ ~startswith(lower(user_input), S_model)
  /\ ~is_temperature_input(user_input)
  /\ ~is_execute_input(user_input)
  /\ ~is_search_input(user_input)

DigitValue(c) ==
  CASE c = "0" -> 0 [] c = "1" -> 1 [] c = "2" -> 2 [] c = "3" -> 3
    [] c = "4" -> 4 [] c = "5" -> 5 [] c = "6" -> 6 [] c = "7" -> 7
    [] c = "8" -> 8 [] c = "9" -> 9 [] OTHER -> -1

\* float(text) for texts of the forms d, d.d, -d, -d.d (in tenths); any
\* other text of TemperatureInputs makes float() raise ValueError
float(text) ==
  LET t == strip(text)
      neg == t # <<>> /\ t[1] = "-"
      b == IF neg THEN Tail(t) ELSE t
      sign == IF neg THEN -1 ELSE 1
  IN  IF Len(b) = 1 /\ DigitValue(b[1]) >= 0
        THEN [ok |-> TRUE, tenths |-> sign * 10 * DigitValue(b[1])]
        ELSE IF Len(b) = 3 /\ DigitValue(b[1]) >= 0 /\ b[2] = "."
                /\ DigitValue(b[3]) >= 0
          THEN [ok |-> TRUE,
                tenths |-> sign * (10 * DigitValue(b[1]) + DigitValue(b[3]))]
          ELSE [ok |-> FALSE, tenths |-> 0]

\* a range test without the upper bound
temperature_in_range_no_max(temp_value) == 0 <= temp_value

\* `0.0 <= temp_value <= 1.0`, in tenths
temperature_in_range(temp_value) == 0 <= temp_value /\ temp_value <= 10

\* the 'temperature <value>' branch; text is the input as the branch parses
\* it (chat_command: as typed; OrbyTUI: lower-cased). The new temperature,
\* whether the configuration was saved, and what is shown
temperature_handler(text, current) ==
  LET temp_value == float(split1(text, << " " >>)[2])
  IN  IF ~temp_value.ok
        THEN [temperature |-> current, saved |-> FALSE,
              shown |-> << "Invalid temperature command" >>]
        ELSE IF temperature_in_range(temp_value.tenths)
          THEN [temperature |-> temp_value.tenths, saved |-> TRUE,
                shown |-> << "Temperature set to" >>]
          ELSE [temperature |-> current, saved |-> FALSE,
                shown |-> << "Temperature must be between 0.0 and 1.0" >>]

(***************************************************************************)
(* ReadFileTool                                                            *)
(***************************************************************************)
\* lines[a:b] for a, b >= 0
py_slice(lines, a, b) ==
  SubSeq(lines, a + 1, IF b < Len(lines) THEN b ELSE Len(lines))

\* `if limit:` - None and 0 are both false
limit_given(params) == params.has_limit /\ params.limit # 0

\* `limit and len(lines) > (start_line + (limit or len(lines)))`
is_truncated(lines, params) ==
  limit_given(params) /\ Len(lines) > params.offset + params.limit

\* ReadFileTool.execute on a file that holds `lines`; readable is whether
\* open() and readlines() succeed. llmContent is the notice (the 1-based
\* range shown and the total, empty when there is no notice) followed by
\* the content; returnDisplay carries the range of a truncated result
ReadFileTool_execute(lines, params, readable) ==
  IF ~readable
    THEN [error |-> TRUE,
          llmContent |-> [notice |-> <<>>, content |-> <<>>],
          returnDisplay |-> <<>>]
    ELSE LET start_line == params.offset
             content_lines ==
               IF limit_given(params)
                 THEN py_slice(lines, start_line, start_line + params.limit)
                 ELSE py_slice(lines, start_line, Len(lines))
             shown == << start_line + 1, start_line + Len(content_lines) >>
         IN  [error |-> FALSE,
              llmContent |->
                [notice |-> IF is_truncated(lines, params)
                              THEN shown \o << Len(lines) >> ELSE <<>>,
                 content |-> content_lines],
              returnDisplay |-> IF is_truncated(lines, params) THEN shown ELSE <<>>]

(***************************************************************************)
(* ToolRegistry                                                            *)
(***************************************************************************)
\* a tool, as far as the registry looks at it
Tool(name, description) == [name |-> name, description |-> description]

\* ShellTool(), WebSearchTool(), ReadFileTool()
builtin_tools ==
  << Tool("run_shell_command", "This tool executes a given shell command."),
     Tool("google_web_search", "Performs a web search."),
     Tool("read_file", "Reads and returns the content of a specified file.") >>

\* a registration that keeps the tool already held under the name
register_tool_keep_first(tools, tool) ==
  IF \E i \in 1..Len(tools) : tools[i].name = tool.name
    THEN tools
    ELSE Append(tools, tool)

\* ToolRegistry.register_tool: self.tools[tool.name] = tool (a dict keeps
\* the position of a key that is assigned again)
register_tool(tools, tool) ==
  IF \E i \in 1..Len(tools) : tools[i].name = tool.name
    THEN [i \in 1..Len(tools) |->
            IF tools[i].name = tool.name THEN tool ELSE tools[i]]
    ELSE Append(tools, tool)

\* ToolRegistry.register_builtin_tools on an empty registry
register_builtin_tools ==
  register_tool(register_tool(register_tool(<<>>, builtin_tools[1]),
                              builtin_tools[2]), builtin_tools[3])

\* ToolRegistry.get_tool: self.tools.get(name), as a list of no or one tool
get_tool(tools, name) == SelectSeq(tools, LAMBDA t : t.name = name)

\* ToolRegistry.get_tool_schemas
get_tool_schemas(tools) ==
  [i \in 1..Len(tools) |->
     [name |-> tools[i].name, description |-> tools[i].description]]

(***************************************************************************)
(* Model listing                                                           *)
(***************************************************************************)
\* the key orders under which an entry's identifier is looked up
ollama_keys == << "name", "model", "id" >>

lmstudio_keys == << "id", "name", "model" >>

\* a lookup that tries name, model, id whatever the backend
entry_name_fixed_order(entry, keys) ==
  IF entry.name # <<>> THEN entry.name
  ELSE IF entry.model # <<>> THEN entry.model
  ELSE entry.id

\* model.get(k1) or model.get(k2) or model.get(k3): the first value that is
\* present and not empty, <<>> when there is none
entry_name(entry, keys) ==
  IF entry[keys[1]] # <<>> THEN entry[keys[1]]
  ELSE IF entry[keys[2]] # <<>> THEN entry[keys[2]]
  ELSE entry[keys[3]]

RECURSIVE model_names(_, _)
\* the loop over the entries: a dict entry gives its identifier when it has
\* one, any other entry gives its text
model_names(entries, keys) ==
  IF entries = <<>> THEN <<>>
  ELSE LET model == Head(entries)
           rest == model_names(Tail(entries), keys)
       IN  IF model.is_dict
             THEN IF entry_name(model, keys) # <<>>
                    THEN << entry_name(model, keys) >> \o rest
                    ELSE rest
             ELSE << model.text >> \o rest

\* 'return model_names if model_names else [self.config.default_model]'
names_or_default(names, cfg) ==
  IF names # <<>> THEN names ELSE << cfg.default_model >>

\* LocalLLMProvider.list_models; reply is what the backend does: the call
\* raises, answers with a status other than 200, or answers with a body
\* that holds the entries under a key
LocalLLMProvider_list_models(cfg, reply) ==
  IF cfg.backend = "ollama"
    THEN IF reply.kind = "ok" /\ reply.key = "models"
           THEN names_or_default(model_names(reply.entries, ollama_keys), cfg)
           ELSE << cfg.default_model >>
    ELSE IF cfg.backend = "lmstudio"
      THEN IF reply.kind = "ok"
             THEN names_or_default(
                    model_names(IF reply.key \in {"data", "models"}
                                  THEN reply.entries ELSE <<>>,
                                lmstudio_keys), cfg)
             ELSE << cfg.default_model >>
      ELSE << cfg.default_model >>

(***************************************************************************)
(* Bounds and input sets                                                   *)
(***************************************************************************)
\* chunks a backend streams in one response
MaxChunks == 2

Prompts ==
  { P_exec_echo, P_EXEC_echo, P_run_ls, P_Run_ls, P_exec_rmrf, P_exec_mkfs,
    P_run_rm, P_exec_blank, P_please_run, P_hello, P_search, P_SEARCH,
    P_what_is, P_run_and_ask }

\* prompts used in the longer message batches
FewPrompts == { P_run_ls, P_EXEC_echo, P_exec_rmrf, P_hello, P_what_is }

System == Msg("system", SYSTEM_PROMPT)

\* the message batches a caller passes: the user message alone, the
\* [system, user] batch every command of the repository builds, a user
\* message followed by a system or an assistant message, the empty batch
Batches ==
  { << Msg("user", p) >> : p \in Prompts }
  \cup { << System, Msg("user", p) >> : p \in FewPrompts }
  \cup { << Msg("user", p), System >> : p \in FewPrompts }
  \cup { << Msg("user", p), Msg("assistant", P_hello), Msg("user", P_run_ls) >> :
           p \in FewPrompts }
  \cup { <<>> }

\* the model argument: absent, or a name
Models == { <<>>, << "q" >> }

Responses == { P_hello }

\* a streamed chunk: with content, with empty content, without content
Chunks ==
  { [has_content |-> TRUE, content |-> << "a" >>],
    [has_content |-> TRUE, content |-> <<>>],
    [has_content |-> FALSE, content |-> <<>>] }

ToolNames == {"terminal_execution", "web_search", "ide_open"}

ToolCommands == { S_echo_hi, S_rm_rf_root, << "M", "k", "f", "s" >>, <<>> }

\* commands passed directly to the safety checks and the shell tools
DirectCommands ==
  ToolCommands \cup { S_chmod_root, S_chown_root, S_MKFS, S_dd, S_redirect,
                      S_fork_bomb, S_RM_x, S_ls, S_blank }

\* params dicts passed to ShellTool.validate_params: a text command, no
\* command, a command that is not text
ShellParams ==
  [has_command : {TRUE}, is_str : {TRUE}, command : DirectCommands]
  \cup { [has_command |-> FALSE, is_str |-> FALSE, command |-> <<>>],
         [has_command |-> TRUE, is_str |-> FALSE, command |-> <<>>] }

\* register_tool calls made on one registry after its construction
MaxRegistrations == 3

\* tools a caller registers: under a built-in name or a new one
CallerTools ==
  { Tool(n, d) : n \in {"run_shell_command", "custom"}, d \in {"d1", "d2"} }

ToolLookups == {"run_shell_command", "read_file", "custom", "absent"}

\* lines typed in an interactive session that go to the model
SessionPrompts == { P_hello }

\* texts submitted in the UI that go to the model
UIPrompts == SessionPrompts \cup { I_temp_none }

SearchInputs == { P_search, P_SEARCH, P_find, P_Find }

TemperatureInputs ==
  { I_temp_1, I_TEMP_00, I_temp_15, I_temp_neg, I_temp_abc, I_temp_none }

ExitInputs == { I_exit, I_QUIT, I_q }

\* queries passed directly to the search tools
Queries == { S_ls, P_what_is, P_search, <<>> }

\* lines of a file read by ReadFileTool
MaxLines == 3

\* a file of n lines: line i is modelled by the number i
Files == { [i \in 1..n |-> i] : n \in 0..MaxLines }

\* offset (0 when absent) and limit (absent, or a number) of a read_file call
ReadParams ==
  [offset : 0..(MaxLines + 1), has_limit : {TRUE}, limit : 0..(MaxLines + 1)]
  \cup [offset : 0..(MaxLines + 1), has_limit : {FALSE}, limit : {0}]

\* entries of one model listing
MaxEntries == 2

\* an entry of a listing: a dict with any of the keys name, model, id
\* (<<>> for a key that is absent or empty), or a plain string
ModelEntries ==
  [is_dict : {TRUE}, text : {<<>>}, name : {<<>>, << "n" >>},
   model : {<<>>, << "m" >>}, id : {<<>>, << "i" >>}]
  \cup { [is_dict |-> FALSE, text |-> << "s" >>, name |-> <<>>,
          model |-> <<>>, id |-> <<>>] }

EntryLists == UNION { [1..n -> ModelEntries] : n \in 0..MaxEntries }

\* what the backend does with the listing request
ListReplies ==
  [kind : {"ok"}, key : {"models", "data", "other"}, entries : EntryLists]
  \cup [kind : {"raises", "status"}, key : {"other"}, entries : {<<>>}]

(***************************************************************************)
(* State                                                                   *)
(***************************************************************************)
VARIABLES
  config,     \* the ModelConfig of the provider
  phase,      \* idle, generator, dispatched, completed, failed
  op,         \* the operation in progress or just finished
  messages0,  \* the caller's message list as passed
  messages,   \* the caller's message list as it is now
  args,       \* enable_context and model of the call
  det,        \* what the detector did in this call
  context,    \* the Context of this call
  checks,     \* safety checks made by this operation
  spawned,    \* commands handed to a shell by this operation
  sent,       \* the message sequence handed to the backend
  requests,   \* requests made to each backend by this call
  outcome,    \* what the caller got: returned value or raised exception
  backend_err, \* the failure the backend call raised, if it raised
  chunks,     \* what the backend delivered: the chunks of a stream, or the
              \* single message of a non-streamed response
  fragments,  \* fragments yielded to the caller
  call,       \* the direct call of a tool or provider method, with its input
  ret,        \* what that call returned: a dict as it is, any other
              \* value in a record of one field
  registry,   \* ToolRegistry.tools of the registry in use: the tools in the
              \* order of the dict
  registered, \* the tools passed to register_tool on it, in call order
  session,    \* the interactive session in progress (chat loop or full-screen
              \* UI), its options, and whether its input handler is running
  temperature, \* config.temperature, in tenths
  console     \* what the current iteration of the session has shown

vars == << config, phase, op, messages0, messages, args, det, context,
           checks, spawned, sent, requests, outcome, backend_err, chunks,
           fragments, call, ret, registry, registered, session,
           temperature, console >>

NoErr == [cause |-> "none", text |-> <<>>]

NoArgs == [enable_context |-> FALSE, model |-> <<>>]

NoDet == [detected |-> FALSE, input |-> NoText, raised |-> None,
          terminal |-> Quiet, web |-> Quiet]

NoCall == [fn |-> "none"]

\* no direct call has returned
NoRet == [returned |-> FALSE]

\* no interactive session: the provider and the tools are called directly
NoSession ==
  [kind |-> "none", stream |-> FALSE, verbose |-> FALSE,
   enable_context |-> FALSE, busy |-> FALSE]

\* nothing shown
NoConsole == [kind |-> "none", text |-> <<>>]

\* ModelConfig.temperature = 0.7, in tenths
default_temperature == 7

\* an operation that is not part of the session code leaves these alone
SessionUnchanged == UNCHANGED << session, temperature, console >>

\* the input handler of the session, if there is one, is running
Busy(s) == IF s.kind = "none" THEN s ELSE [s EXCEPT !.busy = TRUE]

NoRequests == [b \in {"ollama", "lmstudio"} |-> 0]

Idle ==
  /\ phase = "idle"
  /\ op = "none"
  /\ messages0 = <<>>
  /\ messages = <<>>
  /\ args = NoArgs
  /\ det = NoDet
  /\ context = EmptyContext
  /\ checks = {}
  /\ spawned = <<>>
  /\ sent = <<>>
  /\ requests = NoRequests
  /\ outcome = NoOutcome
  /\ backend_err = NoErr
  /\ chunks = <<>>
  /\ fragments = <<>>
  /\ call = NoCall
  /\ ret = NoRet
  /\ registry = <<>>
  /\ registered = <<>>
  /\ session = NoSession
  /\ console = NoConsole

Init == config \in Configs /\ Idle /\ temperature = default_temperature

(***************************************************************************)
(* Operations                                                              *)
(***************************************************************************)
\* dispatch as it would be if the backend were selected before the detected
\* tools run: with an unsupported backend nothing has been executed
dispatch_backend_first(a, b) ==
  IF b = ""
    THEN /\ messages' = a.messages
         /\ det' = NoDet
         /\ context' = EmptyContext
         /\ checks' = {}
         /\ spawned' = <<>>
         /\ phase' = "failed"
         /\ outcome' = Outcome("ValueError", << "Unsupported backend: " >>)
         /\ UNCHANGED << sent, requests >>
    ELSE /\ messages' = a.messages
         /\ det' = [detected |-> a.detected, input |-> a.input,
                    raised |-> a.raised, terminal |-> a.d.terminal,
                    web |-> a.d.web]
         /\ context' = a.d.context
         /\ checks' = a.d.terminal.checks
         /\ spawned' = a.d.terminal.spawned
         /\ IF a.raised # None
              THEN /\ phase' = "failed"
                   /\ outcome' = Outcome(a.raised, <<>>)
                   /\ UNCHANGED << sent, requests >>
              ELSE /\ phase' = "dispatched"
                   /\ sent' = a.sent
                   /\ requests' = [requests EXCEPT ![b] = @ + 1]
                   /\ outcome' = NoOutcome

\* the effect of the body on the state: a is the assembled request, b the
\* selected backend
dispatch(a, b) ==
  /\ messages' = a.messages
  /\ det' = [detected |-> a.detected, input |-> a.input, raised |-> a.raised,
             terminal |-> a.d.terminal, web |-> a.d.web]
  /\ context' = a.d.context
  /\ checks' = a.d.terminal.checks
  /\ spawned' = a.d.terminal.spawned
  /\ IF a.raised # None
       THEN /\ phase' = "failed"
            /\ outcome' = Outcome(a.raised, <<>>)
            /\ UNCHANGED << sent, requests >>
       ELSE IF b = ""
         THEN /\ phase' = "failed"
              /\ outcome' = Outcome("ValueError", << "Unsupported backend: " >>)
              /\ UNCHANGED << sent, requests >>
         ELSE /\ phase' = "dispatched"
              /\ sent' = a.sent
              /\ requests' = [requests EXCEPT ![b] = @ + 1]
              /\ outcome' = NoOutcome

\* the body shared by chat_complete and stream_chat, from the detector to
\* the backend call
run_body(msgs, enable_context, shell_outcome) ==
  dispatch(assemble(msgs, enable_context, config, shell_outcome),
           selected_backend(config))

\* LocalLLMProvider.chat_complete, up to the backend call
chat_complete(msgs, enable_context, model, shell_outcome) ==
  /\ phase = "idle"
  /\ session.kind = "none"
  /\ op' = "chat_complete"
  /\ messages0' = msgs
  /\ args' = [enable_context |-> enable_context, model |-> model]
  /\ run_body(msgs, enable_context, shell_outcome)
  /\ UNCHANGED << config, backend_err, chunks, fragments, call, ret,
                  registry, registered >>
  /\ SessionUnchanged

\* LocalLLMProvider.stream_chat: the call only creates the generator
stream_chat(msgs, enable_context, model) ==
  /\ phase = "idle"
  /\ session.kind = "none"
  /\ phase' = "generator"
  /\ op' = "stream_chat"
  /\ messages0' = msgs
  /\ messages' = msgs
  /\ args' = [enable_context |-> enable_context, model |-> model]
  /\ UNCHANGED << config, det, context, checks, spawned, sent, requests,
                  outcome, backend_err, chunks, fragments, call, ret,
                  registry, registered >>
  /\ SessionUnchanged

\* the first next() on the generator runs the body up to the backend call
stream_first_next(shell_outcome) ==
  /\ phase = "generator"
  /\ run_body(messages, args.enable_context, shell_outcome)
  /\ UNCHANGED << config, op, messages0, args, backend_err, chunks, fragments, call, ret,
                  registry, registered >>
  /\ SessionUnchanged

\* the non-streamed backend call returns a response
backend_returns(content) ==
  /\ phase = "dispatched"
  /\ op = "chat_complete"
  /\ phase' = "completed"
  /\ outcome' = Outcome("return", content)
  /\ chunks' = << [has_content |-> TRUE, content |-> content] >>
  /\ UNCHANGED << config, op, messages0, messages, args, det, context, checks,
                  spawned, sent, requests, backend_err, fragments, call, ret,
                  registry, registered >>
  /\ SessionUnchanged

\* a loop that yields what carries no content and skips what does
stream_yields_inverted(backend, chunk) == ~chunk.has_content

\* stream_chat's loop over the backend stream: which chunks are yielded
stream_yields(backend, chunk) ==
  IF backend = "ollama"
    THEN chunk.has_content
    ELSE chunk.has_content /\ chunk.content # <<>>

\* the backend stream delivers one chunk
stream_chunk(chunk) ==
  /\ phase = "dispatched"
  /\ op = "stream_chat"
  /\ Len(chunks) < MaxChunks
  /\ chunks' = Append(chunks, chunk)
  /\ fragments' = IF stream_yields(config.backend, chunk)
                    THEN Append(fragments, chunk.content)
                    ELSE fragments
  /\ UNCHANGED << config, phase, op, messages0, messages, args, det, context,
                  checks, spawned, sent, requests, outcome, backend_err,
                  call, ret, registry, registered >>
  /\ SessionUnchanged

\* the backend stream ends: the generator is exhausted
stream_end ==
  /\ phase = "dispatched"
  /\ op = "stream_chat"
  /\ phase' = "completed"
  /\ outcome' = Outcome("StopIteration", <<>>)
  /\ UNCHANGED << config, op, messages0, messages, args, det, context, checks,
                  spawned, sent, requests, backend_err, chunks, fragments, call, ret,
                  registry, registered >>
  /\ SessionUnchanged

\* the backend call (or the iteration over its stream) raises
backend_raises(err) ==
  /\ phase = "dispatched"
  /\ phase' = "failed"
  /\ outcome' = backend_error(config.backend, err.text,
                              model_name(args.model, config), op = "stream_chat")
  /\ backend_err' = err
  /\ UNCHANGED << config, op, messages0, messages, args, det, context, checks,
                  spawned, sent, requests, chunks, fragments, call, ret,
                  registry, registered >>
  /\ SessionUnchanged

\* a direct handler finished: what it checked, spawned and reported
handler_done(name, input, r) ==
  /\ phase = "idle"
  /\ phase' = "completed"
  /\ op' = name
  /\ call' = [fn |-> name, input |-> input]
  /\ checks' = r.checks
  /\ spawned' = r.spawned
  /\ outcome' = Outcome("return", r.text)
  /\ UNCHANGED << config, messages0, messages, args, det, context, sent,
                  requests, backend_err, chunks, fragments, ret,
                  registry, registered >>
  /\ session' = Busy(session)
  /\ UNCHANGED << temperature, console >>

\* ToolManager.execute_tool
execute_tool(tool_name, command, shell_outcome) ==
  /\ session.kind = "none"
  /\ handler_done("execute_tool", command,
                  ToolManager_execute_tool(tool_name, command, shell_outcome))

\* chat_command: an 'execute:' / 'run:' line of the interactive loop
chat_command_execute(user_input, shell_outcome) ==
  /\ phase = "idle"
  /\ session.kind = "chat"
  /\ is_execute_input(user_input)
  /\ handler_done("chat_command", user_input,
                  execute_handler(user_input, config, shell_outcome))

\* OrbyTUI.on_text_area_submitted: an 'execute:' / 'run:' prompt
ui_execute(prompt, shell_outcome) ==
  /\ phase = "idle"
  /\ session.kind = "ui"
  /\ is_execute_input(prompt)
  /\ handler_done("ui", prompt, execute_handler(prompt, config, shell_outcome))

\* a direct call of a tool or provider method returned value
direct_call(name, input, value) ==
  /\ phase = "idle"
  /\ session.kind = "none"
  /\ phase' = "completed"
  /\ op' = name
  /\ call' = input
  /\ ret' = value
  /\ UNCHANGED << config, messages0, messages, args, det, context, checks,
                  spawned, sent, requests, outcome, backend_err, chunks,
                  fragments, registry, registered >>
  /\ SessionUnchanged

\* LocalLLMProvider.list_models
list_models(reply) ==
  direct_call("list_models", [fn |-> "list_models", reply |-> reply],
              [models |-> LocalLLMProvider_list_models(config, reply)])

\* TerminalExecutor.safe_command called on a command
call_safe_command(command) ==
  direct_call("safe_command", [fn |-> "safe_command", command |-> command],
              [safe |-> safe_command(command)])

\* ShellTool.validate_params called on a params dict
call_validate_params(params) ==
  direct_call("validate_params", [fn |-> "validate_params", params |-> params],
              [error |-> ShellTool_validate_params_dict(params)])

\* ShellTool.should_confirm_execute called on a command
call_should_confirm_execute(command) ==
  direct_call("should_confirm_execute",
              [fn |-> "should_confirm_execute", command |-> command],
              ShellTool_should_confirm_execute(command))

\* ShellTool.execute called on a command; shell_outcome is what
\* subprocess.run does
call_ShellTool_execute(command, shell_outcome) ==
  direct_call("ShellTool_execute",
              [fn |-> "ShellTool_execute", command |-> command,
               shell_outcome |-> shell_outcome],
              ShellTool_execute(command, shell_outcome))

\* TerminalExecutor.execute_command called on a command
call_execute_command(command, shell_outcome) ==
  direct_call("execute_command",
              [fn |-> "execute_command", command |-> command,
               shell_outcome |-> shell_outcome],
              TerminalExecutor_execute_command(command, shell_outcome))

\* WebSearchTool.execute called on a query
call_WebSearchTool_execute(query) ==
  direct_call("WebSearchTool_execute",
              [fn |-> "WebSearchTool_execute", query |-> query],
              WebSearchTool_execute(query))

\* WebSearcher.search called on a query
call_WebSearcher_search(query) ==
  direct_call("WebSearcher_search",
              [fn |-> "WebSearcher_search", query |-> query],
              [sources |-> WebSearcher_search(query)])

\* ReadFileTool.execute called on a file
call_ReadFileTool_execute(lines, params, readable) ==
  direct_call("ReadFileTool_execute",
              [fn |-> "ReadFileTool_execute", lines |-> lines,
               params |-> params, readable |-> readable],
              ReadFileTool_execute(lines, params, readable))

\* ToolRegistry(): a new registry, which registers the built-in tools
ToolRegistry_init ==
  /\ phase = "idle"
  /\ session.kind = "none"
  /\ phase' = "registry"
  /\ op' = "ToolRegistry"
  /\ registry' = register_builtin_tools
  /\ registered' = builtin_tools
  /\ UNCHANGED << config, messages0, messages, args, det, context, checks,
                  spawned, sent, requests, outcome, backend_err, chunks,
                  fragments, call, ret >>
  /\ SessionUnchanged

\* ToolRegistry.register_tool(tool)
ToolRegistry_register_tool(tool) ==
  /\ phase = "registry"
  /\ Len(registered) < Len(builtin_tools) + MaxRegistrations
  /\ registry' = register_tool(registry, tool)
  /\ registered' = Append(registered, tool)
  /\ call' = [fn |-> "register_tool", tool |-> tool]
  /\ ret' = NoRet
  /\ UNCHANGED << config, phase, op, messages0, messages, args, det, context,
                  checks, spawned, sent, requests, outcome, backend_err,
                  chunks, fragments >>
  /\ SessionUnchanged

\* ToolRegistry.get_tool(name)
ToolRegistry_get_tool(name) ==
  /\ phase = "registry"
  /\ call' = [fn |-> "get_tool", name |-> name]
  /\ ret' = [tool |-> get_tool(registry, name)]
  /\ UNCHANGED << config, phase, op, messages0, messages, args, det, context,
                  checks, spawned, sent, requests, outcome, backend_err,
                  chunks, fragments, registry, registered >>
  /\ SessionUnchanged

\* ToolRegistry.get_tool_schemas()
ToolRegistry_get_tool_schemas ==
  /\ phase = "registry"
  /\ call' = [fn |-> "get_tool_schemas"]
  /\ ret' = [schemas |-> get_tool_schemas(registry)]
  /\ UNCHANGED << config, phase, op, messages0, messages, args, det, context,
                  checks, spawned, sent, requests, outcome, backend_err,
                  chunks, fragments, registry, registered >>
  /\ SessionUnchanged

\* `orby chat` without a prompt or a --temperature option: the interactive
\* loop starts reading input
chat_start(stream, verbose, enable_context) ==
  /\ phase = "idle"
  /\ session.kind = "none"
  /\ session' = [kind |-> "chat", stream |-> stream, verbose |-> verbose,
                  enable_context |-> enable_context, busy |-> FALSE]
  /\ UNCHANGED << config, phase, op, messages0, messages, args, det, context,
                  checks, spawned, sent, requests, outcome, backend_err,
                  chunks, fragments, call, ret, registry, registered,
                  temperature, console >>

\* OrbyTUI is mounted: the input surface waits for a submitted prompt
ui_start ==
  /\ phase = "idle"
  /\ session.kind = "none"
  /\ session' = [kind |-> "ui", stream |-> FALSE, verbose |-> FALSE,
                  enable_context |-> TRUE, busy |-> FALSE]
  /\ UNCHANGED << config, phase, op, messages0, messages, args, det, context,
                  checks, spawned, sent, requests, outcome, backend_err,
                  chunks, fragments, call, ret, registry, registered,
                  temperature, console >>

\* chat_command: a line that is no command is sent to the model, from
\* inside the loop body
chat_prompt(user_input, shell_outcome) ==
  /\ phase = "idle"
  /\ session.kind = "chat"
  /\ is_ai_input(user_input)
  /\ session' = Busy(session)
  /\ messages0' = << System, Msg("user", user_input) >>
  /\ args' = [enable_context |-> session.enable_context, model |-> <<>>]
  /\ call' = [fn |-> "chat_command", input |-> user_input]
  /\ IF session.stream
       THEN /\ op' = "stream_chat"
            /\ phase' = "generator"
            /\ messages' = << System, Msg("user", user_input) >>
            /\ UNCHANGED << det, context, checks, spawned, sent, requests,
                            outcome >>
       ELSE /\ op' = "chat_complete"
            /\ run_body(<< System, Msg("user", user_input) >>,
                        session.enable_context, shell_outcome)
  /\ UNCHANGED << config, backend_err, chunks, fragments, ret, registry,
                  registered, temperature, console >>

\* OrbyTUI.on_text_area_submitted: a prompt that is no command is passed to
\* _process_ai_response, which the handler calls before it returns
ui_prompt(text, shell_outcome) ==
  /\ phase = "idle"
  /\ session.kind = "ui"
  /\ strip(text) # <<>>
  /\ is_ai_input(strip(text))
  /\ session' = Busy(session)
  /\ op' = "chat_complete"
  /\ messages0' = << System, Msg("user", strip(text)) >>
  /\ args' = [enable_context |-> TRUE, model |-> <<>>]
  /\ call' = [fn |-> "ui", input |-> text]
  /\ run_body(<< System, Msg("user", strip(text)) >>, TRUE, shell_outcome)
  /\ UNCHANGED << config, backend_err, chunks, fragments, ret, registry,
                  registered, temperature, console >>

\* a branch of the loop body (of the submit handler) that makes no request
\* and spawns nothing: what it was given, what it computed, what it showed
session_branch(name, input, value, shown) ==
  /\ phase = "idle"
  /\ phase' = "completed"
  /\ op' = name
  /\ call' = [fn |-> name, input |-> input]
  /\ ret' = value
  /\ console' = [kind |-> "shown", text |-> shown]
  /\ session' = Busy(session)
  /\ UNCHANGED << config, messages0, messages, args, det, context, checks,
                  spawned, sent, requests, outcome, backend_err, chunks,
                  fragments, registry, registered >>

\* chat_command: a 'temperature <value>' line
chat_temperature(user_input) ==
  /\ phase = "idle"
  /\ session.kind = "chat"
  /\ is_temperature_input(user_input)
  /\ LET r == temperature_handler(user_input, temperature)
     IN  /\ temperature' = r.temperature
         /\ session_branch("temperature", user_input, r, r.shown)

\* OrbyTUI.on_text_area_submitted: a 'temperature <value>' prompt
ui_temperature(text) ==
  /\ phase = "idle"
  /\ session.kind = "ui"
  /\ is_temperature_input(strip(text))
  /\ LET r == temperature_handler(lower(strip(text)), temperature)
     IN  /\ temperature' = r.temperature
         /\ session_branch("temperature", text, r, r.shown)

\* chat_command: a 'search:' / 'find:' line
chat_search(user_input) ==
  /\ phase = "idle"
  /\ session.kind = "chat"
  /\ is_search_input(user_input)
  /\ UNCHANGED temperature
  /\ session_branch("search", user_input, search_handler(user_input, config),
                    << "Searching" >>)

\* OrbyTUI.on_text_area_submitted: a 'search:' / 'find:' prompt
ui_search(text) ==
  /\ phase = "idle"
  /\ session.kind = "ui"
  /\ is_search_input(strip(text))
  /\ UNCHANGED temperature
  /\ session_branch("search", text, search_handler(strip(text), config),
                    << "SEARCHING" >>)

\* help, models, config, system, clear, cls: something is shown
session_command(input) ==
  /\ phase = "idle"
  /\ session.kind \in {"chat", "ui"}
  /\ lower(input) \in loop_commands
  /\ UNCHANGED temperature
  /\ session_branch("command", input, NoRet, lower(input))

\* an error handler that shows the error and lets it end the session
show_error_and_exit ==
  /\ phase = "failed"
  /\ session.kind \in {"chat", "ui"}
  /\ console = NoConsole
  /\ console' = [kind |-> "Error", text |-> outcome.text]
  /\ session' = [session EXCEPT !.kind = "ended"]
  /\ UNCHANGED << config, phase, op, messages0, messages, args, det, context,
                  checks, spawned, sent, requests, outcome, backend_err,
                  chunks, fragments, call, ret, registry, registered,
                  temperature >>

\* the `except Exception` around the request: the error text is shown
show_error ==
  /\ phase = "failed"
  /\ session.kind \in {"chat", "ui"}
  /\ console = NoConsole
  /\ console' = [kind |-> "Error", text |-> outcome.text]
  /\ UNCHANGED << config, phase, op, messages0, messages, args, det, context,
                  checks, spawned, sent, requests, outcome, backend_err,
                  chunks, fragments, call, ret, registry, registered,
                  session, temperature >>

\* `continue` (the end of the loop body, the return of the submit handler):
\* the session reads input again
loop_continue ==
  /\ session.kind \in {"chat", "ui"}
  /\ \/ phase = "completed"
     \/ phase = "failed" /\ console # NoConsole
  /\ phase' = "idle"
  /\ op' = "none"
  /\ messages0' = <<>>
  /\ messages' = <<>>
  /\ args' = NoArgs
  /\ det' = NoDet
  /\ context' = EmptyContext
  /\ checks' = {}
  /\ spawned' = <<>>
  /\ sent' = <<>>
  /\ requests' = NoRequests
  /\ outcome' = NoOutcome
  /\ backend_err' = NoErr
  /\ chunks' = <<>>
  /\ fragments' = <<>>
  /\ call' = NoCall
  /\ ret' = NoRet
  /\ console' = NoConsole
  /\ session' = [session EXCEPT !.busy = FALSE]
  /\ UNCHANGED << config, registry, registered, temperature >>

\* exit, quit or q: `break` (self.exit() in the UI) ends the session
session_exit(input) ==
  /\ phase = "idle"
  /\ session.kind \in {"chat", "ui"}
  /\ is_exit_input(input)
  /\ session' = [session EXCEPT !.kind = "ended"]
  /\ call' = [fn |-> "exit", input |-> input]
  /\ console' = [kind |-> "shown", text |-> << "Goodbye!" >>]
  /\ UNCHANGED << config, phase, op, messages0, messages, args, det, context,
                  checks, spawned, sent, requests, outcome, backend_err,
                  chunks, fragments, ret, registry, registered, temperature >>

\* the caller takes the result; the next operation starts from scratch
Return ==
  /\ phase \in {"completed", "failed", "registry"}
  /\ session.kind = "none"
  /\ phase' = "idle"
  /\ op' = "none"
  /\ messages0' = <<>>
  /\ messages' = <<>>
  /\ args' = NoArgs
  /\ det' = NoDet
  /\ context' = EmptyContext
  /\ checks' = {}
  /\ spawned' = <<>>
  /\ sent' = <<>>
  /\ requests' = NoRequests
  /\ outcome' = NoOutcome
  /\ backend_err' = NoErr
  /\ chunks' = <<>>
  /\ fragments' = <<>>
  /\ call' = NoCall
  /\ ret' = NoRet
  /\ registry' = <<>>
  /\ registered' = <<>>
  /\ console' = NoConsole
  /\ UNCHANGED << session, temperature >>
  /\ UNCHANGED config

\* an operation starts when nothing is in progress (phase = "idle"); the
\* steps of an operation in progress follow the phase it is in
Next ==
  \/ phase = "idle" /\ \E msgs \in Batches, ec \in BOOLEAN, m \in Models, so \in ShellOutcomes :
       chat_complete(msgs, ec, m, so)
  \/ phase = "idle" /\ \E msgs \in Batches, ec \in BOOLEAN, m \in Models :
       stream_chat(msgs, ec, m)
  \/ \E so \in ShellOutcomes : stream_first_next(so)
  \/ \E content \in Responses : backend_returns(content)
  \/ \E chunk \in Chunks : stream_chunk(chunk)
  \/ stream_end
  \/ \E err \in BackendErrors : backend_raises(err)
  \/ phase = "idle" /\ \E t \in ToolNames, c \in ToolCommands, so \in ShellOutcomes :
       execute_tool(t, c, so)
  \/ phase = "idle" /\ \E u \in Prompts, so \in ShellOutcomes :
       chat_command_execute(u, so)
  \/ phase = "idle" /\ \E u \in Prompts, so \in ShellOutcomes :
       ui_execute(u, so)
  \/ phase = "idle" /\ \E st \in BOOLEAN, vb \in BOOLEAN, ec \in BOOLEAN :
       chat_start(st, vb, ec)
  \/ ui_start
  \/ phase = "idle" /\ \E u \in SessionPrompts, so \in ShellOutcomes :
       chat_prompt(u, so)
  \/ phase = "idle" /\ \E u \in UIPrompts, so \in ShellOutcomes :
       ui_prompt(u, so)
  \/ phase = "idle" /\ \E u \in TemperatureInputs : chat_temperature(u)
  \/ phase = "idle" /\ \E u \in TemperatureInputs : ui_temperature(u)
  \/ phase = "idle" /\ \E u \in SearchInputs : chat_search(u)
  \/ phase = "idle" /\ \E u \in SearchInputs : ui_search(u)
  \/ phase = "idle" /\ \E u \in loop_commands : session_command(u)
  \/ show_error
  \/ loop_continue
  \/ phase = "idle" /\ \E u \in ExitInputs : session_exit(u)
  \/ phase = "idle" /\ \E reply \in ListReplies : list_models(reply)
  \/ phase = "idle" /\ \E c \in DirectCommands : call_safe_command(c)
  \/ phase = "idle" /\ \E params \in ShellParams : call_validate_params(params)
  \/ phase = "idle" /\ \E c \in DirectCommands : call_should_confirm_execute(c)
  \/ phase = "idle" /\ \E c \in DirectCommands, so \in ShellOutcomes :
       call_ShellTool_execute(c, so)
  \/ phase = "idle" /\ \E c \in DirectCommands, so \in ShellOutcomes :
       call_execute_command(c, so)
  \/ phase = "idle" /\ \E lines \in Files, params \in ReadParams, readable \in BOOLEAN :
       call_ReadFileTool_execute(lines, params, readable)
  \/ phase = "idle" /\ \E query \in Queries : call_WebSearchTool_execute(query)
  \/ phase = "idle" /\ \E query \in Queries : call_WebSearcher_search(query)
  \/ ToolRegistry_init
  \/ \E tool \in CallerTools : ToolRegistry_register_tool(tool)
  \/ \E name \in ToolLookups : ToolRegistry_get_tool(name)
  \/ ToolRegistry_get_tool_schemas
  \/ Return

Spec == Init /\ [][Next]_vars

\* the loop body runs to its end: a raised error reaches its except clause
\* and `continue` reaches the next console.input
LoopSpec == Spec /\ WF_vars(show_error) /\ WF_vars(loop_continue)

(***************************************************************************)
(* Properties                                                              *)
(***************************************************************************)
RequestOps == {"chat_complete", "stream_chat"}

\* the body of the request has run (for stream_chat: the first fragment
\* has been requested)
BodyRan == op \in RequestOps /\ phase \in {"dispatched", "completed", "failed"}

Range(s) == {s[i] : i \in 1..Len(s)}

\* C1: every command handed to a shell, by the detector, by
\* ToolManager.execute_tool or by an interactive execute:/run: handler, was
\* first passed to validate_params or safe_command, which let exactly that
\* command pass
C1_ShellOnlyAfterPassedCheck ==
  \A i \in 1..Len(spawned) :
    \E c \in checks :
      /\ c.command = spawned[i]
      /\ c.passed
      /\ c.by = "validate_params" => ShellTool_validate_params(c.command) = None
      /\ c.by = "safe_command" => safe_command(c.command)

\* the detector executed a command during a request
C1_Witness == op \in RequestOps /\ spawned # <<>> /\ phase = "dispatched"

\* C2: a command containing "rm -rf /" never passes validate_params or
\* safe_command, and no shell is spawned for it
C2_RmRfRootNeverPasses ==
  /\ \A c \in checks : In(S_rm_rf_root, c.command) => ~c.passed
  /\ \A i \in 1..Len(spawned) : ~In(S_rm_rf_root, spawned[i])

\* the command C3 expects for a prompt that holds an explicit prefix: the
\* text after the first occurrence of the prefix, found without regard to
\* case, stripped, in its original casing
C3_expected(prompt) ==
  LET low == lower(prompt)
      k == SetMin({j \in 1..Len(command_indicators) : In(command_indicators[j], low)})
      i == SetMin(Occurrences(command_indicators[k], low))
  IN  strip(SubSeq(prompt, i + Len(command_indicators[k]), Len(prompt)))

\* C3: when the detector runs (terminal execution enabled) on a prompt that
\* holds an explicit prefix in any letter case, it does not raise and the
\* command it extracts is the stripped text after the prefix
C3_CaseInsensitiveExtraction ==
  (BodyRan /\ det.detected /\ config.enable_terminal_execution
     /\ AnyIn(command_indicators, lower(det.input)))
  => /\ det.terminal.raised = None
     /\ det.terminal.extracted
     /\ det.terminal.arg = C3_expected(det.input)

FirstUser(msgs) == SetMin({i \in 1..Len(msgs) : msgs[i].role = "user"})

HasUser(msgs) == \E i \in 1..Len(msgs) : msgs[i].role = "user"

\* C4: with context enabled, the detector is run on the first user-role
\* message of the batch, wherever it is positioned
C4_DetectorSeesFirstUserMessage ==
  (BodyRan /\ args.enable_context /\ HasUser(messages0))
  => /\ det.detected
     /\ det.input = messages0[FirstUser(messages0)].content

\* C5: with a non-empty context the sequence sent to the backend is
\* [system message with the tool instructions, context as a user message,
\* original user message, remaining messages in their order]
C5_ContextAfterSystemMessage ==
  (BodyRan /\ sent # <<>> /\ DOMAIN context # {})
  => LET u == FirstUser(messages0)
     IN  /\ Len(sent) >= 3
         /\ sent[1].role = "system"
         /\ InstructionsHeader \in Range(sent[1].content)
         /\ sent[2].role = "user"
         /\ sent[2].content[1] = ContextHeader
         /\ sent[3] = messages0[u]
         /\ \A i \in 4..Len(sent) : sent[i].role # "system" /\ sent[i] \in Range(messages0)

\* C6: a detected shell command that fails validation, times out or errors
\* does not abort the request, and the Context holds an entry for it under
\* terminal_execution
C6_ToolFailureCapturedInContext ==
  (BodyRan /\ det.detected /\ selected_backend(config) # ""
     /\ det.terminal.extracted /\ det.terminal.arg # <<>>)
  => /\ sent # <<>>
     /\ "terminal_execution" \in DOMAIN context

\* C7: chat_complete and stream_chat leave the caller's message list and
\* every message in it as they were
C7_CallerMessagesUnchanged == messages = messages0

\* C8: for the ollama backend the raised error carries the 'ollama pull'
\* hint exactly when the backend failure is an unknown model identifier
C8_ModelNotFoundExactly ==
  (BodyRan /\ phase = "failed" /\ config.backend = "ollama" /\ backend_err # NoErr)
  => (In(S_ollama_pull, outcome.text) <=> backend_err.cause = "unknown_model")

\* C9: with a backend value that is neither ollama nor lmstudio, the call
\* fails with the configuration error and returns nothing
C9_UnsupportedBackendIsConfigError ==
  (BodyRan /\ config.backend \notin {"ollama", "lmstudio"})
  => /\ phase = "failed"
     /\ outcome.kind = "ValueError"
     /\ fragments = <<>>

\* C10: a call makes at most one request, and only to the configured
\* backend; it goes idle -> dispatched -> completed or failed, each once;
\* a failure is an exception raised to the caller, after which no request
\* is made
C10_SingleDispatch ==
  /\ [](/\ requests["ollama"] + requests["lmstudio"] <= 1
        /\ \A b \in DOMAIN requests : requests[b] > 0 => b = config.backend
        /\ (BodyRan /\ phase \in {"dispatched", "completed"})
             => requests[config.backend] = 1
        /\ (BodyRan /\ phase = "failed")
             => outcome.kind \in {"RuntimeError", "ValueError", "IndexError"})
  /\ [][/\ phase = "dispatched" => phase' \in {"dispatched", "completed", "failed"}
        /\ phase \in {"completed", "failed"} => phase' \in {phase, "idle"}
        /\ (phase' = "dispatched" /\ phase # "dispatched")
             => phase \in {"idle", "generator"}
        /\ phase \in {"dispatched", "completed", "failed"}
             => (requests' = requests \/ phase' = "idle")]_vars

\* a backend call failed after its single request
C10_Witness ==
  /\ BodyRan
  /\ phase = "failed"
  /\ backend_err # NoErr
  /\ requests[config.backend] = 1

RECURSIVE Concat(_)
\* the in-order concatenation of a sequence of texts
Concat(texts) ==
  IF texts = <<>> THEN <<>> ELSE Head(texts) \o Concat(Tail(texts))

\* the contents of the chunks that carry content, in order
CarriedContents(chs) ==
  LET carrying == SelectSeq(chs, LAMBDA c : c.has_content)
  IN  [i \in 1..Len(carrying) |-> carrying[i].content]

C12_identifiers(entries, keys) ==
  LET id(e) == IF ~e.is_dict THEN e.text
               ELSE IF \E k \in 1..3 : e[keys[k]] # <<>>
                 THEN e[keys[SetMin({k \in 1..3 : e[keys[k]] # <<>>})]]
                 ELSE <<>>
      having == SelectSeq(entries, LAMBDA e : id(e) # <<>>)
  IN  [i \in 1..Len(having) |-> id(having[i])]

\* C12: list_models returns (it does not raise) a list that is never empty:
\* the single default model when the backend is unreachable, answers with a
\* status other than 200, answers with an unrecognized shape or with no
\* extractable identifier; otherwise the identifiers of the entries, read
\* under name/model/id for ollama and under id/name/model for lmstudio
C12_ListModelsNeverEmpty ==
  call.fn = "list_models"
  => LET reply == call.reply
         keys == IF config.backend = "ollama"
                   THEN << "name", "model", "id" >>
                   ELSE << "id", "name", "model" >>
         recognized == IF config.backend = "ollama"
                         THEN reply.key = "models"
                         ELSE reply.key \in {"data", "models"}
         ids == C12_identifiers(reply.entries, keys)
     IN  /\ phase = "completed"
         /\ outcome = NoOutcome
         /\ Len(ret.models) >= 1
         /\ IF config.backend \in {"ollama", "lmstudio"} /\ reply.kind = "ok"
               /\ recognized /\ ids # <<>>
              THEN ret.models = ids
              ELSE ret.models = << config.default_model >>

\* a listing of two entries, the first holding all three keys, was read
\* from an lmstudio backend
C12_Witness ==
  /\ call.fn = "list_models"
  /\ config.backend = "lmstudio"
  /\ call.reply.kind = "ok"
  /\ Len(call.reply.entries) = 2
  /\ call.reply.entries[1].name # <<>>
  /\ call.reply.entries[1].id # <<>>
  /\ Len(ret.models) = 2

\* C13: during a request no shell command is executed when
\* enable_terminal_execution is false, no web search is performed when
\* enable_online_search is false, and neither tool runs when the call is
\* made with context disabled, whatever the prompt holds
C13_FlagsGateTools ==
  BodyRan
  => /\ ~config.enable_terminal_execution
          => /\ spawned = <<>>
             /\ ~det.terminal.ran
             /\ "terminal_execution" \notin DOMAIN context
     /\ ~config.enable_online_search
          => /\ ~det.web.ran
             /\ "web_search" \notin DOMAIN context
     /\ ~args.enable_context
          => /\ spawned = <<>>
             /\ ~det.terminal.ran
             /\ ~det.web.ran
             /\ context = EmptyContext

\* a request whose prompt holds a command prefix and a search trigger was
\* dispatched with both flags off
C13_Witness ==
  /\ BodyRan
  /\ phase = "dispatched"
  /\ args.enable_context
  /\ ~config.enable_terminal_execution
  /\ ~config.enable_online_search
  /\ messages0 = << Msg("user", P_run_and_ask) >>
  /\ spawned = <<>>

\* the natural-language shell triggers: can you run, please run, try
\* running, run this command, execute this, terminal command
C14_natural_triggers == SubSeq(terminal_triggers, 5, 10)

\* C14: a prompt that matches natural-language shell triggers and holds
\* none of the explicit prefixes execute:, run:, terminal:, command: causes
\* no command to be executed and no terminal_execution entry in the Context
C14_NaturalTriggersNeverExecute ==
  (BodyRan /\ det.detected
     /\ AnyIn(C14_natural_triggers, lower(det.input))
     /\ ~AnyIn(command_indicators, lower(det.input)))
  => /\ spawned = <<>>
     /\ checks = {}
     /\ ~det.terminal.ran
     /\ "terminal_execution" \notin DOMAIN context

\* the detector ran, with terminal execution enabled, on 'please run ls'
C14_Witness ==
  /\ BodyRan
  /\ phase = "dispatched"
  /\ det.detected
  /\ config.enable_terminal_execution
  /\ det.input = P_please_run
  /\ spawned = <<>>

\* the query C15 expects for a prompt: with an explicit prefix, found
\* without regard to case, the stripped text after its first occurrence,
\* in its original casing; without one, the whole prompt
C15_expected(prompt) ==
  LET low == lower(prompt)
      hits == {j \in 1..Len(search_indicators) : In(search_indicators[j], low)}
  IN  IF hits = {} THEN prompt
      ELSE LET prefix == search_indicators[SetMin(hits)]
               i == SetMin(Occurrences(prefix, low))
           IN  strip(SubSeq(prompt, i + Len(prefix), Len(prompt)))

\* C15: with online search enabled, when the detector finds a search trigger
\* in the prompt, the query is the text after the explicit prefix if the
\* prompt holds one, and the entire prompt, unchanged, if only a question
\* starter matches
C15_SearchQueryExtraction ==
  (BodyRan /\ det.detected /\ config.enable_online_search
     /\ det.terminal.raised = None
     /\ AnyIn(search_triggers, lower(det.input)))
  => /\ det.web.raised = None
     /\ det.web.extracted
     /\ det.web.arg = C15_expected(det.input)

SystemAt(msgs) == {i \in 1..Len(msgs) : msgs[i].role = "system"}

\* the messages that hold the tool-usage instructions
InstructedAt(msgs) ==
  {i \in 1..Len(msgs) : InstructionsHeader \in Range(msgs[i].content)}

C17_deny_list ==
  << <<"d","d"," ","i","f","=">>,
     <<"d","d"," ","o","f","=">>,
     <<"m","k","f","s">>,
     <<"c","h","m","o","d"," ","-","r"," ","7","7","7"," ","/">>,
     <<"c","h","o","w","n"," ","-","r"," ","r","o","o","t"," ","/">>,
     <<":","(",")","{",":","&","}",";",":">>,
     <<">"," ","/","d","e","v","/">> >>

\* C17: safe_command returns false for every command that contains, in any
\* letter case, a raw-disk write, a recursive permission or ownership
\* change on root, the fork-bomb signature or a redirection into a device
\* file
C17_DenyListCaseInsensitive ==
  (call.fn = "safe_command" /\ AnyIn(C17_deny_list, lower(call.command)))
  => ret.safe = FALSE

\* C18: should_confirm_execute returns a confirmation descriptor (kind exec,
\* the command as given, a prompt) when the command contains, in any letter
\* case, one of rm, delete, chmod, chown, format, mkfs and validate_params
\* does not hard-block it; for every other command it returns False
C18_ConfirmOnlyIfNotBlocked ==
  call.fn = "should_confirm_execute"
  => IF /\ AnyIn(confirmation_commands, lower(call.command))
        /\ ShellTool_validate_params(call.command) = None
       THEN /\ ret.type = "exec"
            /\ ret.command = call.command
            /\ ret.message # <<>>
       ELSE ret = PyFalse

\* C19: validate_params returns an error when the command is missing, is
\* not text, is empty or only whitespace, or holds, in any letter case, an
\* entry of the hard-block list, and returns None for every other command;
\* the detector executes no command for which validation returned an error
C19_ValidationErrors ==
  /\ call.fn = "validate_params"
       => LET params == call.params
          IN  ret.error # None
                <=> \/ ~params.has_command
                    \/ ~params.is_str
                    \/ \A i \in 1..Len(params.command) : IsSpace(params.command[i])
                    \/ \E k \in 1..Len(dangerous_commands) :
                         In(dangerous_commands[k], lower(params.command))
  /\ BodyRan
       => /\ \A i \in 1..Len(spawned) : ShellTool_validate_params(spawned[i]) = None
          /\ \A c \in checks : ~c.passed => c.command \notin Range(spawned)
          /\ (det.terminal.extracted /\ det.terminal.arg # <<>>
                /\ ShellTool_validate_params(det.terminal.arg) # None)
               => (spawned = <<>> /\ ~det.terminal.ran)

\* validate_params was called on 'MKFS x' and returned an error
C19_Witness ==
  /\ call.fn = "validate_params"
  /\ call.params.is_str
  /\ call.params.command = S_MKFS
  /\ ret.error # None

\* C20: when the command exceeds the 30-second bound, ShellTool.execute and
\* TerminalExecutor.execute_command return (they do not raise) a result
\* marked success = false with a message that states the timeout
C20_TimeoutIsUnsuccessfulResult ==
  (call.fn \in {"ShellTool_execute", "execute_command"}
     /\ call.shell_outcome = "timeout")
  => /\ phase = "completed"
     /\ "success" \in DOMAIN ret
     /\ ret.success = FALSE
     /\ \/ "stderr" \in DOMAIN ret
             /\ ret.stderr = << "Command timed out after 30 seconds" >>
        \/ "returnDisplay" \in DOMAIN ret
             /\ ret.returnDisplay = << "Command timed out after 30 seconds" >>

\* the lines with 0-based indices a .. b-1 of a file, in file order
C21_range(lines, a, b) ==
  LET idx == {i \in 1..Len(lines) : a < i /\ i <= b}
  IN  [k \in 1..Cardinality(idx) |-> lines[a + k]]

\* C21: ReadFileTool.execute returns the lines with indices
\* offset .. min(offset+limit, N)-1 of a file of N lines, never more than
\* limit lines when a limit is given, and the lines from offset to the end
\* when no limit is given
C21_ExactLineRange ==
  (call.fn = "ReadFileTool_execute" /\ call.readable)
  => LET N == Len(call.lines)
         offset == call.params.offset
         limit == call.params.limit
     IN  IF call.params.has_limit
           THEN /\ ret.llmContent.content
                     = C21_range(call.lines, offset,
                                 IF offset + limit < N THEN offset + limit ELSE N)
                /\ Len(ret.llmContent.content) <= limit
           ELSE ret.llmContent.content = C21_range(call.lines, offset, N)

\* C22: the result of ReadFileTool.execute carries the truncation notice
\* exactly when the returned lines are not the whole file, and the notice
\* gives the 1-based range shown and the total number of lines
C22_TruncatedIffPartial ==
  (call.fn = "ReadFileTool_execute" /\ call.readable)
  => LET N == Len(call.lines)
         content == ret.llmContent.content
         notice == ret.llmContent.notice
     IN  /\ notice # <<>> <=> Len(content) < N
         /\ notice # <<>>
              => notice = << call.params.offset + 1,
                            call.params.offset + Len(content), N >>

\* the names under which a tool was registered
RegisteredNames == {registered[i].name : i \in 1..Len(registered)}

\* the tool most recently registered under a name
LastRegistered(name) ==
  registered[SetMax({i \in 1..Len(registered) : registered[i].name = name})]

\* C23: on a registry, get(name) returns the tool most recently registered
\* under the name and nothing for a name never registered; list_schemas
\* returns one {name, description} entry per distinct registered name; a
\* new registry holds the three built-in tools
C23_RegistryLastWins ==
  phase = "registry"
  => /\ call.fn = "get_tool"
          => IF call.name \in RegisteredNames
               THEN ret.tool = << LastRegistered(call.name) >>
               ELSE ret.tool = <<>>
     /\ call.fn = "get_tool_schemas"
          => /\ Len(ret.schemas) = Cardinality(RegisteredNames)
             /\ {ret.schemas[i].name : i \in 1..Len(ret.schemas)} = RegisteredNames
             /\ \A i \in 1..Len(ret.schemas) :
                  /\ DOMAIN ret.schemas[i] = {"name", "description"}
                  /\ ret.schemas[i].description
                       = LastRegistered(ret.schemas[i].name).description
     /\ registered = builtin_tools
          => {registry[i].name : i \in 1..Len(registry)}
               = {"run_shell_command", "google_web_search", "read_file"}
     /\ \A n \in RegisteredNames : get_tool(registry, n) = << LastRegistered(n) >>

\* a tool was registered twice under a built-in name and then looked up
C23_Witness ==
  /\ phase = "registry"
  /\ call.fn = "get_tool"
  /\ call.name = "run_shell_command"
  /\ Cardinality({i \in 1..Len(registered) :
                    registered[i].name = "run_shell_command"}) = 3
  /\ ret.tool = << registered[Len(registered)] >>

\* C24: a web search returns (it does not raise) a list of results, each
\* of the shape {title, url, snippet, timestamp}
C24_SearchResultShape ==
  call.fn \in {"WebSearchTool_execute", "WebSearcher_search"}
  => /\ phase = "completed"
     /\ \A i \in 1..Len(ret.sources) :
          DOMAIN ret.sources[i] = {"title", "url", "snippet", "timestamp"}

\* C25: in the full-screen UI the model call runs apart from the input
\* handler: whenever a request of the UI is in flight at the backend, the
\* submit handler has already returned
C25_HandlerReturnedDuringCall ==
  (session.kind = "ui" /\ phase = "dispatched") => ~session.busy

\* the text after the prefix the input starts with
after_prefix(user_input, prefixes) ==
  LET p == CHOOSE q \in prefixes : startswith(lower(user_input), q)
  IN  slice_from(user_input, Len(p))

\* C26: for an input starting with execute: or run: the command that is
\* safety-checked and executed is the trimmed text after that prefix, and
\* for an input starting with search: or find: the query is the trimmed
\* text after that prefix
C26_TextAfterPrefix ==
  /\ (op \in {"chat_command", "ui"} /\ phase = "completed") =>
       LET command == strip(after_prefix(strip(call.input), {S_execute, S_run}))
       IN  /\ \A c \in checks : c.command = command
           /\ \A i \in 1..Len(spawned) : spawned[i] = command
  /\ (op = "search" /\ phase = "completed") =>
       \A i \in 1..Len(ret.searched) :
         ret.searched[i] =
           strip(after_prefix(strip(call.input), {S_search, S_find}))


\* the value typed after 'temperature '
typed_temperature(input) == float(slice_from(input, Len(S_temperature)))

\* C27: the configured temperature stays within [0.0, 1.0]; a
\* 'temperature <value>' command with a value in range stores and saves it,
\* and one with a value out of range or unparsable leaves the temperature
\* unchanged and saves nothing
C27_TemperatureStaysInRange ==
  /\ [](temperature \in 0..10)
  /\ [][(op' = "temperature" /\ op # "temperature") =>
          LET v == typed_temperature(call'.input)
          IN  IF v.ok /\ v.tenths \in 0..10
                THEN temperature' = v.tenths /\ ret'.saved
                ELSE temperature' = temperature /\ ~ret'.saved]_vars

\* a value in range was stored and saved, replacing the default
C27_Witness ==
  /\ op = "temperature"
  /\ call.input = I_temp_1
  /\ ret.saved
  /\ temperature = 10


\* the detector extracted a command and validate_params let it pass
ValidatedCommand ==
  /\ det.terminal.extracted
  /\ det.terminal.arg # <<>>
  /\ ShellTool_validate_params(det.terminal.arg) = None

\* C28: in the detector a command that passes validation is executed,
\* exactly once and in the same step, whether or not should_confirm_execute
\* returned a confirmation descriptor for it
C28_ConfirmationNeverGates ==
  ValidatedCommand =>
    /\ det.terminal.ran
    /\ det.terminal.spawned = << det.terminal.arg >>
    /\ spawned = << det.terminal.arg >>

\* a command for which a confirmation descriptor is returned has run
C28_Witness ==
  /\ ValidatedCommand
  /\ ShellTool_should_confirm_execute(det.terminal.arg) # PyFalse
  /\ spawned = << det.terminal.arg >>


\* what the detector does for the request in progress
ExpectedTools ==
  IF detects(messages0, args.enable_context)
    THEN enhanced_process(messages0[1].content, config, "exit0")
    ELSE NotDetected

\* C29: within one request the detected tool invocations have all run when
\* the backend is selected or contacted, so a request that fails with an
\* unsupported backend or a backend error has already executed them; a
\* stream_chat call has done none of it before the first fragment is
\* requested
C29_ToolsBeforeBackend ==
  /\ phase = "generator" =>
       /\ det = NoDet
       /\ checks = {}
       /\ spawned = <<>>
       /\ sent = <<>>
       /\ requests = NoRequests
  /\ (/\ op \in RequestOps
      /\ \/ phase = "dispatched"
         \/ phase = "failed" /\ outcome.kind \in {"ValueError", "RuntimeError"}) =>
       /\ det.detected = detects(messages0, args.enable_context)
       /\ spawned = ExpectedTools.terminal.spawned
       /\ det.terminal.ran = ExpectedTools.terminal.ran
       /\ det.web.ran = ExpectedTools.web.ran

\* a streamed request failed on an unsupported backend after its shell
\* command had run
C29_Witness ==
  /\ op = "stream_chat"
  /\ phase = "failed"
  /\ outcome.kind = "ValueError"
  /\ spawned # <<>>


\* the interactive chat loop is waiting for a line of input
ReadingInput == session.kind = "chat" /\ phase = "idle" /\ ~session.busy

\* a request of the interactive chat loop has failed
ChatRequestFailed ==
  session.kind = "chat" /\ op \in RequestOps /\ phase = "failed"

\* C30: in the interactive chat loop a failed request never ends the
\* session: the error text is shown and the loop returns to reading input;
\* the loop ends only on the input exit, quit or q (in any case)
C30_FailureKeepsSession ==
  /\ [][ChatRequestFailed =>
          /\ session'.kind = "chat"
          /\ \/ console = NoConsole /\ console'.kind = "Error"
                /\ console'.text = outcome.text /\ phase' = "failed"
             \/ console.kind = "Error" /\ ReadingInput']_vars
  /\ [][(session.kind = "chat" /\ session'.kind # "chat") =>
          /\ ReadingInput
          /\ session'.kind = "ended"
          /\ lower(call'.input) \in {I_exit, << "q", "u", "i", "t" >>, I_q}]_vars
  /\ ChatRequestFailed ~> ReadingInput

\* a streamed request of the loop failed at the backend and the error text
\* is on the console
C30_Witness ==
  /\ ChatRequestFailed
  /\ session.stream
  /\ backend_err # NoErr
  /\ console = [kind |-> "Error", text |-> outcome.text]

=============================================================================
